---------------------------- MODULE Spec2Model ----------------------------
(***************************************************************************)
(* A model of dial-metric-mp3: the spectral feature engine                 *)
(* (src/src/frequency_bands.rs), the per-file analysis and the batch       *)
(* driver (src/src/main.rs) and the result cache (src/src/utils.rs).       *)
(*                                                                         *)
(* Numbers.  f32/f64 values are modelled in fixed point: a percentage, a   *)
(* centroid, a spread or a zero-crossing rate x is held as the integer     *)
(* FLOOR(x * PScale); an averaged band energy e as FLOOR(e * EScale).      *)
(* The two IEEE values that arithmetic on these can produce and that are   *)
(* not numbers, NaN (0.0/0.0) and +infinity (x/0.0, x > 0), are the        *)
(* negative sentinels NaN and Inf, and every operator below treats them    *)
(* as IEEE-754 does (NaN propagates, a comparison with NaN is false).      *)
(*                                                                         *)
(* The FFT (the rustfft crate) is not part of the repository.  The         *)
(* magnitude spectrum of a frame is an input: a sparse function from a few *)
(* bins (PeakBins) to a magnitude, zero elsewhere, and zero everywhere for *)
(* a frame of silence (a linear transform maps 0 to 0).                    *)
(***************************************************************************)
EXTENDS Integers, Sequences, FiniteSets, TLC

(***************************************************************************)
(* State                                                                   *)
(***************************************************************************)
VARIABLES
    \* one call of calculate_zero_crossing_rate
    zsamples,   \* its argument
    zpc,        \* "call" before, "returned" after
    zresult,    \* its return value
    \* one call of analyze_frequency_distribution
    input,      \* the decoded file: get_samples' result and the frames' spectra
    stage,      \* "decoded", then "energies", then "ok"; or "err" / "panic"
    energies,   \* calculate_band_energies' result
    metrics,    \* the SpectrumMetrics returned
    \* one run of analyze_directory
    nfiles,     \* mp3_files.len(); the sorted files are 1..nfiles
    idx,        \* the loop's position in mp3_files
    pc,         \* "loop", "done" (returned) or "panicked" (process aborted)
    cache,      \* filename -> set holding the CachedMetrics entry, or {}
    outcome,    \* what was printed per file: "none", "analyzed", "cached", "failed"
    updated,    \* the local `updated`
    saved,      \* whether save_cache ran
    cur         \* what the last loop iteration observed of its file

zvars == <<zsamples, zpc, zresult>>
evars == <<input, stage, energies, metrics>>
bvars == <<nfiles, idx, pc, cache, outcome, updated, saved, cur>>
vars == <<zvars, evars, bvars>>

(***************************************************************************)
(* Program constants                                                       *)
(***************************************************************************)
FRAME_SIZE == 2048
HOP_SIZE == 512
\* the divisor of the spread normalisation, spread / 35.0 * 100.0
SpreadDivisor == 35
\* the reference rate of the zero-crossing normalisation, 0.15, in 1/100
ZcrReferencePct == 15

(***************************************************************************)
(* Bounds of the model                                                     *)
(***************************************************************************)
\* hops beyond the first frame that a modelled sample buffer may hold
MaxHops == 5
\* largest magnitude of a spectral peak
MaxAmp == 2
\* longest explicit sample sequence handed to the zero-crossing analyzer
MaxZcrLen == 5
\* most MP3 files in the analyzed directory
MaxFiles == 2

\* fixed-point scales (see the header)
PScale == 10
EScale == 1000

\* MPEG sample rates with Nyquist below, at and above the 6000 Hz band edge
SampleRates == {8000, 11025, 12000, 44100}
\* the bins that may hold a spectral peak
PeakBins == {1, 50, 600}
\* sample values; only the sign of a sample is ever read by the sign scan
SampleValues == {-1, 0, 1}

(***************************************************************************)
(* IEEE-754 values as integers                                             *)
(***************************************************************************)
NaN == -1
Inf == -2

IsNaN(x) == x = NaN
IsFinite(x) == x >= 0

Min(a, b) == IF a <= b THEN a ELSE b
Max(a, b) == IF a >= b THEN a ELSE b

\* a + b
FAdd(a, b) ==
    IF IsNaN(a) \/ IsNaN(b) THEN NaN
    ELSE IF a = Inf \/ b = Inf THEN Inf
    ELSE a + b

\* a / b with the quotient scaled by `scale` (a, b non-negative or special)
FDiv(a, b, scale) ==
    IF IsNaN(a) \/ IsNaN(b) THEN NaN
    ELSE IF a = Inf THEN (IF b = Inf THEN NaN ELSE Inf)
    ELSE IF b = Inf THEN 0
    ELSE IF b = 0 THEN (IF a = 0 THEN NaN ELSE Inf)
    ELSE (a * scale) \div b

\* a > 0.0
FGtZero(a) == a = Inf \/ (IsFinite(a) /\ a > 0)

\* f32::min(a, b): a NaN operand is ignored
FMin(a, b) ==
    IF IsNaN(a) THEN b
    ELSE IF IsNaN(b) THEN a
    ELSE IF a = Inf THEN b
    ELSE IF b = Inf THEN a
    ELSE Min(a, b)

RECURSIVE FSum(_)
FSum(s) == IF s = <<>> THEN 0 ELSE FAdd(Head(s), FSum(Tail(s)))

RECURSIVE ISqrtIn(_, _, _)
ISqrtIn(n, lo, hi) ==
    IF lo >= hi THEN lo
    ELSE LET mid == (lo + hi + 1) \div 2
         IN  IF mid * mid <= n THEN ISqrtIn(n, mid, hi) ELSE ISqrtIn(n, lo, mid - 1)

\* f32::sqrt on fixed point: FLOOR(sqrt(n))
FSqrt(n) == IF IsNaN(n) THEN NaN ELSE IF n = Inf THEN Inf ELSE ISqrtIn(n, 0, Min(n, 46340))

(***************************************************************************)
(* Band table and bin ranges (frequency_bands.rs)                          *)
(***************************************************************************)
get_bands(sample_rate) ==
    << [low_hz |-> 20,   high_hz |-> 60],
       [low_hz |-> 60,   high_hz |-> 250],
       [low_hz |-> 250,  high_hz |-> 500],
       [low_hz |-> 500,  high_hz |-> 2000],
       [low_hz |-> 2000, high_hz |-> 4000],
       [low_hz |-> 4000, high_hz |-> 6000],
       [low_hz |-> 6000, high_hz |-> sample_rate \div 2] >>

low_bin(band, sample_rate) ==
    Max((band.low_hz * FRAME_SIZE) \div sample_rate, 0)

high_bin(band, sample_rate) ==
    Min((band.high_hz * FRAME_SIZE) \div sample_rate, FRAME_SIZE \div 2)

band_bins(bands, sample_rate) ==
    [b \in 1..Len(bands) |->
        [low_bin |-> low_bin(bands[b], sample_rate),
         high_bin |-> high_bin(bands[b], sample_rate)]]

(***************************************************************************)
(* Samples and frames                                                      *)
(***************************************************************************)
\* A sample buffer is a length and a sign pattern repeated to that length.
Sample(samples, i) == samples.pattern[((i - 1) % Len(samples.pattern)) + 1]

SamplesSeq(samples) == [i \in 1..samples.len |-> Sample(samples, i)]

saturating_sub(a, b) == IF a >= b THEN a - b ELSE 0

RECURSIVE step_by(_, _, _)
step_by(start, end, step) ==
    IF start >= end THEN <<>> ELSE <<start>> \o step_by(start + step, end, step)

\* the start offsets the frame loop visits, in order
frame_starts(n) == step_by(0, saturating_sub(n, FRAME_SIZE), HOP_SIZE)

\* a frame [i, i+F) of a periodic buffer holds every value of the pattern
FrameIsSilent(samples, i) ==
    \A j \in (i + 1)..(i + Min(FRAME_SIZE, Len(samples.pattern))) : Sample(samples, j) = 0

\* magnitude[bin] of the k-th frame (k from 1), starting at offset i
Magnitude(decoded, k, i, bin) ==
    IF FrameIsSilent(decoded.samples, i) THEN 0
    ELSE LET spectrum == decoded.spectra[((k - 1) % Len(decoded.spectra)) + 1]
         IN  IF bin \in DOMAIN spectrum THEN spectrum[bin] ELSE 0

RECURSIVE SumSqOver(_, _, _, _)
SumSqOver(decoded, k, i, bins) ==
    IF bins = {} THEN 0
    ELSE LET b == CHOOSE x \in bins : TRUE
             m == Magnitude(decoded, k, i, b)
         IN  m * m + SumSqOver(decoded, k, i, bins \ {b})

\* magnitude[low_bin..high_bin].iter().map(|&m| m * m).sum(); every bin
\* outside PeakBins holds 0
band_energy(decoded, k, i, range) ==
    SumSqOver(decoded, k, i, {b \in PeakBins : range.low_bin <= b /\ b < range.high_bin})

\* Slicing magnitude[low_bin..high_bin] panics when low_bin > high_bin or
\* high_bin > magnitude.len() = FRAME_SIZE / 2.
SlicePanics(range) ==
    range.low_bin > range.high_bin \/ range.high_bin > FRAME_SIZE \div 2

(***************************************************************************)
(* calculate_band_energies (frequency_bands.rs)                            *)
(***************************************************************************)
RECURSIVE accumulate(_, _, _, _)
\* band `range`'s running total over the frames k..Len(starts)
accumulate(decoded, starts, k, range) ==
    IF k > Len(starts) THEN 0
    ELSE band_energy(decoded, k, starts[k], range) + accumulate(decoded, starts, k + 1, range)

\* *energy /= frame_count as f64
average(total, frame_count) == FDiv(total, frame_count, EScale)

\* The call's outcome: status "ok" with the averaged energies, or "panic"
\* when a frame is processed and a band's slice is out of order.  `frames`
\* are the start offsets of the frames processed to the end.
calculate_band_energies(decoded) ==
    LET bands == get_bands(decoded.sample_rate)
        bins == band_bins(bands, decoded.sample_rate)
        starts == frame_starts(decoded.samples.len)
        frame_count == Len(starts)
    IN  IF starts # <<>> /\ \E b \in DOMAIN bins : SlicePanics(bins[b])
        THEN [status |-> "panic", band_energies |-> <<>>, frame_count |-> 0,
              frames |-> <<>>, bins |-> bins]
        ELSE [status |-> "ok",
              band_energies |->
                  [b \in DOMAIN bins |->
                      average(accumulate(decoded, starts, 1, bins[b]), frame_count)],
              frame_count |-> frame_count,
              frames |-> starts,
              bins |-> bins]

(***************************************************************************)
(* calculate_zero_crossing_rate (frequency_bands.rs)                       *)
(***************************************************************************)
\* the sign test with 0.0 on neither side
sign_changed_strict(prev, this) == (this > 0 /\ prev < 0) \/ (this < 0 /\ prev > 0)

\* the sign test of the scan, with 0.0 on the non-negative side
sign_changed(prev, this) == (this >= 0 /\ prev < 0) \/ (this < 0 /\ prev >= 0)

zero_crossings(samples) ==
    Cardinality({i \in 2..Len(samples) : sign_changed(samples[i - 1], samples[i])})

\* (zcr / 0.15 * 100.0).min(100.0) with zcr = zero_crossings / len
normalize_zcr(crossings, len) ==
    Min((crossings * 100 * 100 * PScale) \div (ZcrReferencePct * len), 100 * PScale)

calculate_zero_crossing_rate(samples) ==
    IF Len(samples) < 2 THEN 0
    ELSE normalize_zcr(zero_crossings(samples), Len(samples))

(***************************************************************************)
(* analyze_frequency_distribution (main.rs)                                *)
(***************************************************************************)
band_positions == <<8, 18, 30, 45, 62, 78, 92>>

\* a * k for a plain non-negative integer k
FMul(a, k) ==
    IF IsNaN(a) THEN NaN
    ELSE IF a = Inf THEN (IF k = 0 THEN NaN ELSE Inf)
    ELSE a * k

\* the percentage without the total_energy > 0.0 guard
percentage_unguarded(energy, total_energy) == FDiv(energy, total_energy, 100 * PScale)

\* the share as a fraction, without * 100.0
percentage_fraction(energy, total_energy) ==
    IF FGtZero(total_energy) THEN FDiv(energy, total_energy, PScale) ELSE 0

\* if total_energy > 0.0 { energy / total_energy * 100.0 } else { 0.0 }
percentage(energy, total_energy) ==
    IF FGtZero(total_energy) THEN FDiv(energy, total_energy, 100 * PScale) ELSE 0

band_percentages_of(band_energies) ==
    LET total_energy == FSum(band_energies)
    IN  [b \in DOMAIN band_energies |-> percentage(band_energies[b], total_energy)]

\* the pairs that zip() yields
ZipLen(pcts) == Min(Len(pcts), Len(band_positions))

\* sum(pct * pos) / 100.0
centroid_of(pcts) ==
    LET s == FSum([b \in 1..ZipLen(pcts) |-> FMul(pcts[b], band_positions[b])])
    IN  IF IsFinite(s) THEN s \div 100 ELSE s

\* pct * diff * diff with diff = pos - centroid
weighted_sq_diff(pct, pos, centroid) ==
    IF IsNaN(pct) \/ IsNaN(centroid) THEN NaN
    ELSE IF centroid = Inf THEN (IF pct = 0 THEN NaN ELSE Inf)
    ELSE FMul(pct, (pos * PScale - centroid) * (pos * PScale - centroid))

\* sum(pct * (pos - centroid)^2) / 100.0, scaled by PScale^2
variance_of(pcts, centroid) ==
    LET s == FSum([b \in 1..ZipLen(pcts) |->
                      weighted_sq_diff(pcts[b], band_positions[b], centroid)])
    IN  IF IsFinite(s) THEN s \div (100 * PScale) ELSE s

\* the normalisation without .min(100.0)
normalize_spread_unclamped(spread) ==
    IF IsFinite(spread) THEN (spread * 100) \div SpreadDivisor ELSE spread

\* (spread / 35.0 * 100.0).min(100.0)
normalize_spread(spread) ==
    FMin(IF IsFinite(spread) THEN (spread * 100) \div SpreadDivisor ELSE spread,
         100 * PScale)

\* lines 184-229: the metric set from the averaged energies and the rate
descriptors(band_energies, zcr) ==
    LET pcts == band_percentages_of(band_energies)
        centroid == centroid_of(pcts)
        spread == FSqrt(variance_of(pcts, centroid))
    IN  [centroid |-> centroid,
         raw_spread |-> spread,
         spread |-> normalize_spread(spread),
         zero_crossing_rate |-> zcr,
         band_percentages |-> pcts]

\* How the call on a decoded file ends: "err" (get_samples failed, or no
\* audio data), "panic" (calculate_band_energies panicked) or "ok".
analysis_status(decoded) ==
    IF decoded.decode = "err" THEN "err"
    ELSE IF decoded.samples.len = 0 THEN "err"
    ELSE IF calculate_band_energies(decoded).status = "panic" THEN "panic"
    ELSE "ok"

\* the SpectrumMetrics of a call that ends "ok"
analyze_frequency_distribution(decoded) ==
    descriptors(calculate_band_energies(decoded).band_energies,
                calculate_zero_crossing_rate(SamplesSeq(decoded.samples)))

(***************************************************************************)
(* Values before a call has produced anything                              *)
(***************************************************************************)
NoEnergies ==
    [status |-> "none", band_energies |-> <<>>, frame_count |-> 0,
     frames |-> <<>>, bins |-> <<>>]
NoMetrics ==
    [centroid |-> 0, raw_spread |-> 0, spread |-> 0, zero_crossing_rate |-> 0,
     band_percentages |-> <<>>]
NoInput ==
    [decode |-> "err", sample_rate |-> 0, samples |-> [len |-> 0, pattern |-> <<0>>],
     spectra |-> <<>>]
NoCur ==
    [file |-> 0, had_entry |-> FALSE, entry |-> {}, meta |-> {}, needs_analysis |-> FALSE,
     input |-> NoInput, result |-> "none"]

ZIdle == zsamples = <<>> /\ zpc = "off" /\ zresult = 0
EIdle == input = NoInput /\ stage = "off" /\ energies = NoEnergies /\ metrics = NoMetrics
BIdle ==
    /\ nfiles = 0 /\ idx = 0 /\ pc = "off" /\ cache = <<>> /\ outcome = <<>>
    /\ updated = FALSE /\ saved = FALSE /\ cur = NoCur

(***************************************************************************)
(* Inputs                                                                  *)
(***************************************************************************)
RECURSIVE SeqsUpTo(_, _)
SeqsUpTo(S, n) ==
    IF n = 0 THEN {<<>>}
    ELSE LET shorter == SeqsUpTo(S, n - 1)
         IN  shorter \cup {Append(s, x) : s \in {t \in shorter : Len(t) = n - 1}, x \in S}

\* one decoded MPEG-1 frame of two channels, mixed down to mono
MpegFrame == 1152

\* Buffer lengths: none, the shortest, one decoded frame, and those around
\* the one-frame boundary and around each later hop.  FRAME_SIZE + 5 *
\* HOP_SIZE is four decoded frames.
SampleLens ==
    {0, 1, 2, MpegFrame, FRAME_SIZE - 1, FRAME_SIZE, FRAME_SIZE + 1}
        \cup {FRAME_SIZE + k * HOP_SIZE + d : k \in 1..MaxHops, d \in {0, 1}}

\* silence and an alternating signal
Patterns == {<<0>>, <<1, -1>>}

Spectra == [PeakBins -> 0..MaxAmp]
ZeroSpectrum == [b \in PeakBins |-> 0]

\* The spectra of the odd and of the even frames: a steady signal, or one
\* that pulses on alternate frames.  A buffer of silence transforms to the
\* zero spectrum, so its spectra are not an input.
SpectraFor(pattern) ==
    IF \A j \in 1..Len(pattern) : pattern[j] = 0
    THEN {<<ZeroSpectrum, ZeroSpectrum>>}
    ELSE UNION {{<<s1, s1>>, <<s1, ZeroSpectrum>>} : s1 \in Spectra}

\* what get_samples can return: an error, or samples with their rate
DecodedInputs ==
    {NoInput} \cup
    UNION {{[decode |-> "ok", sample_rate |-> r,
             samples |-> [len |-> n, pattern |-> p], spectra |-> sp] :
                r \in SampleRates, n \in SampleLens, sp \in SpectraFor(p)} :
           p \in Patterns}

(***************************************************************************)
(* ZcrSpec: calculate_zero_crossing_rate on every short sample sequence    *)
(***************************************************************************)
ZInit ==
    /\ zsamples \in SeqsUpTo(SampleValues, MaxZcrLen)
    /\ zpc = "call"
    /\ zresult = 0
    /\ EIdle /\ BIdle

ZcrCall ==
    /\ zpc = "call"
    /\ zresult' = calculate_zero_crossing_rate(zsamples)
    /\ zpc' = "returned"
    /\ UNCHANGED <<zsamples, evars, bvars>>

ZNext == ZcrCall
ZcrSpec == ZInit /\ [][ZNext]_vars

(***************************************************************************)
(* EngineSpec: analyze_frequency_distribution on one decoded file          *)
(***************************************************************************)
EInit ==
    /\ input \in DecodedInputs
    /\ stage = "decoded"
    /\ energies = NoEnergies
    /\ metrics = NoMetrics
    /\ ZIdle /\ BIdle

\* let (all_samples, sample_rate) = get_samples(path)?;
DecodeError ==
    /\ stage = "decoded" /\ input.decode = "err"
    /\ stage' = "err"
    /\ UNCHANGED <<input, energies, metrics, zvars, bvars>>

\* if all_samples.is_empty() { return Err("No audio data found") }
EmptyInput ==
    /\ stage = "decoded" /\ input.decode = "ok" /\ input.samples.len = 0
    /\ stage' = "err"
    /\ UNCHANGED <<input, energies, metrics, zvars, bvars>>

\* calculate_band_energies(&all_samples, sample_rate, &bands) returns
BandEnergies ==
    /\ stage = "decoded" /\ input.decode = "ok" /\ input.samples.len > 0
    /\ LET e == calculate_band_energies(input)
       IN  /\ e.status = "ok"
           /\ energies' = e
    /\ stage' = "energies"
    /\ UNCHANGED <<input, metrics, zvars, bvars>>

\* calculate_band_energies panics on a slice
BandEnergiesPanic ==
    /\ stage = "decoded" /\ input.decode = "ok" /\ input.samples.len > 0
    /\ LET e == calculate_band_energies(input)
       IN  /\ e.status = "panic"
           /\ energies' = e
    /\ stage' = "panic"
    /\ UNCHANGED <<input, metrics, zvars, bvars>>

\* the zero-crossing rate and lines 184-229
Descriptors ==
    /\ stage = "energies"
    /\ metrics' = descriptors(energies.band_energies,
                      calculate_zero_crossing_rate(SamplesSeq(input.samples)))
    /\ stage' = "ok"
    /\ UNCHANGED <<input, energies, zvars, bvars>>

ENext == DecodeError \/ EmptyInput \/ BandEnergies \/ BandEnergiesPanic \/ Descriptors
EngineSpec == EInit /\ [][ENext]_vars

(***************************************************************************)
(* The cache (utils.rs) and the batch driver analyze_directory (main.rs)   *)
(***************************************************************************)
\* File sizes and modification times (Unix seconds).  should_analyze reads
\* them only through != , so two distinct values cover its cases.
Stamps == {1, 2}

\* Option<u64>: {} is None, {v} is Some(v)
OptStamp == {{}} \cup {{v} : v \in Stamps}

\* fs::metadata(path): {} when it fails, else the size and the modification
\* time in seconds ({} when modified() or duration_since() fails)
Metas == {{}} \cup {{[size |-> sz, mtime |-> mt]} : sz \in Stamps, mt \in OptStamp}

\* metrics of an entry that load_cache read from an earlier run's file
LoadedMetrics ==
    [centroid |-> 45 * PScale, spread |-> 0, zero_crossing_rate |-> 0,
     band_percentages |-> <<0, 0, 0, 100 * PScale, 0, 0, 0>>]

CachedMetrics(filename, m, file_size, modified_time) ==
    [filename |-> filename, centroid |-> m.centroid, spread |-> m.spread,
     zero_crossing_rate |-> m.zero_crossing_rate,
     band_percentages |-> m.band_percentages,
     file_size |-> file_size, modified_time |-> modified_time]

\* what load_cache can return for one filename
LoadedEntries(filename) ==
    {{}} \cup {{CachedMetrics(filename, LoadedMetrics, sz, mt)} : sz \in OptStamp, mt \in OptStamp}

The(S) == CHOOSE x \in S : TRUE

\* should_analyze without the modification-time comparison
should_analyze_size_only(meta, entry) ==
    IF entry = {} THEN TRUE
    ELSE meta # {} /\ The(entry).file_size # {}
            /\ The(meta).size # The(The(entry).file_size)

\* should_analyze with the outcome of fs::metadata as `meta`
should_analyze(meta, entry) ==
    IF entry = {} THEN TRUE
    ELSE LET cached == The(entry)
         IN  IF meta # {} /\ cached.file_size # {} /\ The(meta).size # The(cached.file_size)
             THEN TRUE
             ELSE IF /\ meta # {} /\ cached.modified_time # {} /\ The(meta).mtime # {}
                     /\ The(The(meta).mtime) # The(cached.modified_time)
             THEN TRUE
             ELSE FALSE

\* the files a directory may hold: undecodable, empty, shorter than a frame,
\* a frame and more at a usual rate, and rates with Nyquist at or below 6000 Hz
Tone == [b \in PeakBins |-> IF b = 50 THEN 1 ELSE 0]
Content(r, n) ==
    [decode |-> "ok", sample_rate |-> r, samples |-> [len |-> n, pattern |-> <<1, -1>>],
     spectra |-> <<Tone, Tone>>]
FileContents ==
    {NoInput, Content(44100, 0), Content(44100, MpegFrame), Content(44100, 4 * MpegFrame),
     Content(8000, MpegFrame), Content(8000, 4 * MpegFrame), Content(12000, 4 * MpegFrame)}

\* analyze_frequency_distribution on each content a file may hold: how the
\* call ends, and the metrics it returns when it ends "ok"
AnalysisOf ==
    [content \in FileContents |->
        LET status == analysis_status(content)
        IN  [status |-> status,
             metrics |-> IF status = "ok" THEN analyze_frequency_distribution(content)
                         ELSE NoMetrics]]

BInit ==
    /\ nfiles \in 0..MaxFiles
    /\ idx = 1
    /\ pc = "loop"
    /\ cache \in {c \in [1..nfiles -> UNION {LoadedEntries(f) : f \in 1..nfiles}] :
                    \A f \in 1..nfiles : c[f] \in LoadedEntries(f)}
    /\ outcome = [f \in 1..nfiles |-> "none"]
    /\ updated = FALSE
    /\ saved = FALSE
    /\ cur = NoCur
    /\ ZIdle /\ EIdle

\* if mp3_files.is_empty() { ...; return; }
NoFiles ==
    /\ pc = "loop" /\ nfiles = 0
    /\ pc' = "done"
    /\ UNCHANGED <<nfiles, idx, cache, outcome, updated, saved, cur, zvars, evars>>

\* let needs_analysis = should_analyze(&file_path, &cache, &filename);
ShouldAnalyze ==
    /\ pc = "loop" /\ idx <= nfiles
    /\ \E meta \in Metas :
        LET needs == should_analyze(meta, cache[idx])
        IN  /\ cur' = [file |-> idx, had_entry |-> cache[idx] # {}, entry |-> cache[idx],
                       meta |-> meta, needs_analysis |-> needs, input |-> NoInput,
                       result |-> "none"]
            /\ pc' = IF needs THEN "analyze" ELSE "use_cache"
    /\ UNCHANGED <<nfiles, idx, cache, outcome, updated, saved, zvars, evars>>

\* needs_analysis and analyze_frequency_distribution returns Ok: the cache
\* entry is inserted with the metadata read again, and the metrics displayed
AnalyzeOk ==
    /\ pc = "analyze"
    /\ \E content \in FileContents :
        /\ AnalysisOf[content].status = "ok"
        /\ LET m == AnalysisOf[content].metrics
           IN  \E metadata \in Metas :
                LET file_size == IF metadata = {} THEN {} ELSE {The(metadata).size}
                    modified_time == IF metadata = {} THEN {} ELSE The(metadata).mtime
                IN  cache' = [cache EXCEPT ![idx] =
                                 {CachedMetrics(idx, m, file_size, modified_time)}]
        /\ cur' = [cur EXCEPT !.input = content, !.result = "analyzed"]
    /\ updated' = TRUE
    /\ outcome' = [outcome EXCEPT ![idx] = "analyzed"]
    /\ idx' = idx + 1
    /\ pc' = "loop"
    /\ UNCHANGED <<nfiles, saved, zvars, evars>>

\* needs_analysis and analyze_frequency_distribution returns Err
AnalyzeFailed ==
    /\ pc = "analyze"
    /\ \E content \in FileContents :
        /\ AnalysisOf[content].status = "err"
        /\ cur' = [cur EXCEPT !.input = content, !.result = "failed"]
    /\ outcome' = [outcome EXCEPT ![idx] = "failed"]
    /\ idx' = idx + 1
    /\ pc' = "loop"
    /\ UNCHANGED <<nfiles, cache, updated, saved, zvars, evars>>

\* needs_analysis and analyze_frequency_distribution panics: the process
\* aborts inside the loop
AnalyzePanic ==
    /\ pc = "analyze"
    /\ \E content \in FileContents :
        /\ AnalysisOf[content].status = "panic"
        /\ cur' = [cur EXCEPT !.input = content, !.result = "panic"]
    /\ pc' = "panicked"
    /\ UNCHANGED <<nfiles, idx, cache, outcome, updated, saved, zvars, evars>>

\* not needs_analysis: the cached metrics are displayed
UseCached ==
    /\ pc = "use_cache"
    /\ cache[idx] # {}
    /\ cur' = [cur EXCEPT !.result = "cached"]
    /\ outcome' = [outcome EXCEPT ![idx] = "cached"]
    /\ idx' = idx + 1
    /\ pc' = "loop"
    /\ UNCHANGED <<nfiles, cache, updated, saved, zvars, evars>>

\* if updated { save_cache(&cache_file, &cache); }
Finish ==
    /\ pc = "loop" /\ nfiles > 0 /\ idx > nfiles
    /\ saved' = updated
    /\ pc' = "done"
    /\ UNCHANGED <<nfiles, idx, cache, outcome, updated, cur, zvars, evars>>

Next ==
    NoFiles \/ ShouldAnalyze \/ AnalyzeOk \/ AnalyzeFailed \/ AnalyzePanic
        \/ UseCached \/ Finish
Init == BInit
Spec == Init /\ [][Next]_vars

(***************************************************************************)
(* Properties                                                              *)
(***************************************************************************)
RECURSIVE SumSeq(_)
SumSeq(s) == IF s = <<>> THEN 0 ELSE Head(s) + SumSeq(Tail(s))

\* the contents for which the analysis is to fail: a decode error, no sample,
\* fewer samples than one frame, a Nyquist frequency below 6000 Hz
Unanalyzable(content) ==
    \/ content.decode = "err"
    \/ content.samples.len < FRAME_SIZE
    \/ content.sample_rate \div 2 < 6000

\* C1: one track's failure does not abort the batch.  The run never aborts,
\* a file whose analysis fails (decode error, no sample, less than a frame,
\* Nyquist below 6000 Hz) is reported as failed, and when the run ends every
\* file has been displayed or reported.
C1_FailureIsolation ==
    /\ pc # "panicked"
    /\ (cur.result \in {"analyzed", "failed", "panic"} /\ Unanalyzable(cur.input))
          => (cur.result = "failed" /\ outcome[cur.file] = "failed")
    /\ pc = "done" => \A f \in 1..nfiles : outcome[f] \in {"analyzed", "cached", "failed"}

\* C2: for a non-empty buffer shorter than one frame, the zero frame count is
\* detected before averaging: the call fails explicitly, or goes on with
\* band energies that are all finite (never NaN or infinite).
C2_ZeroFramesDetected ==
    (/\ input.decode = "ok"
     /\ 0 < input.samples.len /\ input.samples.len < FRAME_SIZE
     /\ stage # "decoded")
        => \/ stage = "err"
           \/ /\ stage \in {"energies", "ok"}
              /\ \A b \in DOMAIN energies.band_energies :
                    IsFinite(energies.band_energies[b])

\* C3: for every positive sample rate calculate_band_energies completes, and
\* a band whose bin range is empty or inverted contributes zero energy.
C3_DegenerateBandTolerated ==
    stage \in {"energies", "ok", "panic"} =>
        /\ stage # "panic"
        /\ \A b \in DOMAIN energies.bins :
              (energies.bins[b].low_bin >= energies.bins[b].high_bin
                  /\ energies.frame_count > 0)
                 => energies.band_energies[b] = 0

\* C9: the frames processed are exactly [i, i+F) for i = 0, H, 2H, ... while
\* i + F <= N: one frame for N = F, none for N < F.
C9_FramesWhileFits ==
    stage \in {"energies", "ok"} =>
        {energies.frames[k] : k \in DOMAIN energies.frames}
            = {i \in 0..input.samples.len :
                  i % HOP_SIZE = 0 /\ i + FRAME_SIZE <= input.samples.len}

\* C10: for every band and every positive sample rate, low_bin and high_bin
\* lie in [0, FRAME_SIZE/2].
C10_BinsWithinHalfFrame ==
    stage \in {"energies", "ok", "panic"} =>
        \A b \in DOMAIN energies.bins :
            /\ 0 <= energies.bins[b].low_bin
            /\ energies.bins[b].low_bin <= FRAME_SIZE \div 2
            /\ 0 <= energies.bins[b].high_bin
            /\ energies.bins[b].high_bin <= FRAME_SIZE \div 2

AllZero(s) == \A b \in DOMAIN s : s[b] = 0
AllFinite(s) == \A b \in DOMAIN s : IsFinite(s[b])

\* C5: when every averaged band energy is zero, the call returns a result
\* whose percentages, centroid and spread are all 0, and no field is NaN.
C5_SilenceGivesZeroes ==
    (stage = "ok" /\ AllZero(energies.band_energies)) =>
        /\ Len(metrics.band_percentages) = Len(energies.band_energies)
        /\ AllZero(metrics.band_percentages)
        /\ metrics.centroid = 0
        /\ metrics.spread = 0
        /\ IsFinite(metrics.zero_crossing_rate)

C5_Witness ==
    /\ stage = "ok"
    /\ energies.frame_count >= 1
    /\ AllZero(energies.band_energies)
    /\ \A j \in 1..Len(input.samples.pattern) : input.samples.pattern[j] = 0

\* C6: band_percentages has one entry per band, in band order (a band with
\* no more energy than another has no greater percentage, and none without
\* energy), and for finite energies with a positive one every percentage is
\* in [0,100] and they sum to 100 within one rounding step per band.
C6_PercentagesSumTo100 ==
    stage = "ok" =>
        LET e == energies.band_energies
            p == metrics.band_percentages
        IN  /\ Len(p) = Len(get_bands(input.sample_rate))
            /\ (AllFinite(e) /\ \E b \in DOMAIN e : e[b] > 0) =>
                  /\ \A b \in DOMAIN p : 0 <= p[b] /\ p[b] <= 100 * PScale
                  /\ SumSeq(p) <= 100 * PScale
                  /\ SumSeq(p) >= 100 * PScale - Len(p)
                  /\ \A a, b \in DOMAIN p : e[a] <= e[b] => p[a] <= p[b]
                  /\ \A b \in DOMAIN p : e[b] = 0 => p[b] = 0

C6_Witness ==
    /\ stage = "ok"
    /\ AllFinite(energies.band_energies)
    /\ \E a, b \in DOMAIN metrics.band_percentages :
          /\ 0 < metrics.band_percentages[a]
          /\ metrics.band_percentages[a] < metrics.band_percentages[b]
    /\ SumSeq(metrics.band_percentages) < 100 * PScale

\* C7: for finite, non-negative band energies the centroid and the
\* normalized spread lie in [0,100], and a spread whose normalisation
\* exceeds 100 is returned as 100.
C7_CentroidSpreadInRange ==
    (stage = "ok" /\ AllFinite(energies.band_energies)) =>
        /\ 0 <= metrics.centroid /\ metrics.centroid <= 100 * PScale
        /\ 0 <= metrics.spread /\ metrics.spread <= 100 * PScale
        /\ metrics.raw_spread * 100 > 100 * PScale * SpreadDivisor
              => metrics.spread = 100 * PScale

C7_Witness ==
    /\ stage = "ok"
    /\ AllFinite(energies.band_energies)
    /\ metrics.raw_spread * 100 > 100 * PScale * SpreadDivisor
    /\ metrics.spread = 100 * PScale
    /\ metrics.centroid > 0

\* 0.0 counts as non-negative
NonNegative(x) == x >= 0
SignChanges(s) ==
    Cardinality({i \in 1..(Len(s) - 1) : NonNegative(s[i]) # NonNegative(s[i + 1])})
Alternating(s) ==
    \A i \in 1..Len(s) : s[i] = IF i % 2 = 1 THEN 1 ELSE -1

SizeMatches(entry, meta) ==
    meta # {} /\ The(entry).file_size = {The(meta).size}
TimeMatches(entry, meta) ==
    meta # {} /\ The(meta).mtime # {} /\ The(entry).modified_time = The(meta).mtime
SizeMismatch(entry, meta) ==
    meta # {} /\ The(entry).file_size # {} /\ The(entry).file_size # {The(meta).size}
TimeMismatch(entry, meta) ==
    /\ meta # {} /\ The(meta).mtime # {} /\ The(entry).modified_time # {}
    /\ The(entry).modified_time # The(meta).mtime

\* C4 as stated: for a file with a cache entry, should_analyze returns true
\* unless the file's current size and modification time both equal the
\* values recorded in the entry, and the cached metrics are displayed only
\* when both match.
C4_UsedOnlyWhileBothMatch ==
    (cur.file # 0 /\ cur.had_entry) =>
        /\ ~(SizeMatches(cur.entry, cur.meta) /\ TimeMatches(cur.entry, cur.meta))
              => cur.needs_analysis
        /\ cur.result = "cached"
              => (SizeMatches(cur.entry, cur.meta) /\ TimeMatches(cur.entry, cur.meta))

\* C4 amended: for a file with a cache entry and readable metadata,
\* should_analyze returns true whenever the entry records a size, or a
\* modification time, that differs from the file's (readable) current one;
\* the cached metrics are displayed only for a file that has an entry none
\* of whose recorded fields mismatches.  A field the entry does not record,
\* or that cannot be read, is not compared.
C4_UsedOnlyWhileRecordedFieldsMatch ==
    /\ (cur.file # 0 /\ cur.had_entry) =>
          /\ (SizeMismatch(cur.entry, cur.meta) \/ TimeMismatch(cur.entry, cur.meta))
                => (cur.needs_analysis /\ cur.result # "cached" /\ pc # "use_cache")
          /\ ~(SizeMismatch(cur.entry, cur.meta) \/ TimeMismatch(cur.entry, cur.meta))
                => ~cur.needs_analysis
    /\ (cur.result = "cached" \/ pc = "use_cache") =>
          /\ cur.had_entry
          /\ ~SizeMismatch(cur.entry, cur.meta)
          /\ ~TimeMismatch(cur.entry, cur.meta)
    /\ \A f \in 1..nfiles : outcome[f] = "cached" => cache[f] # {}

C4_Witness ==
    /\ cur.had_entry
    /\ SizeMatches(cur.entry, cur.meta)
    /\ TimeMismatch(cur.entry, cur.meta)
    /\ cur.needs_analysis
    /\ cur.result = "analyzed"
    /\ \E f \in 1..nfiles : outcome[f] = "cached"
=============================================================================
